---- MODULE Spec2Model ----
(***************************************************************************)
(* Model of wakeUpLamp_whiteonly.py: a MicroPython wake-up lamp.  One      *)
(* sequential thread runs main(): setup (self-test fade, first clock       *)
(* update) and then clock(), the polling loop that starts the sunrise fade *)
(* at WAKEUP_TUPLE and updates the RTC from NTP four times a day.          *)
(* Time is counted in milliseconds of the device RTC.                      *)
(***************************************************************************)
EXTENDS Integers, Sequences, FiniteSets, TLC

(* ---- user constants of the program ---- *)
TIME_ZONE == 0 - 4
SEC_IN_HOUR == 3600
LIT_LENGTH == 2
WAKEUP_TUPLE == <<4, 45>>
FULL_BRIGHTNESS == 1023

(* literals used in the calls of the program, in milliseconds or raw *)
FadeDefaultLitMs == 1000
FadeStepMs == 5
FlashHalfMs == 500
PollSleepMs_Long == 3 * 30000
PollSleepMs_Short == 30000 \div 3
PollSleepMs == 30000
DistressNum == 4
HeartbeatNum == 2
HeartbeatDuty == 100

(* ---- bounds of the model ---- *)
MaxHours == 3
MaxResets == 1
MaxEvents == 1
MaxHeartbeats == 2
MaxFlashNum == 6
NtpSlowSecs == 2
StepSecs == 1

MsInSec == 1000
RunMs == MaxHours * SEC_IN_HOUR * MsInSec
NoDuty == 0 - 1
NoTime == 0 - 1
NoHourMin == <<NoTime, NoTime>>

(* RTC values at the first power-on, UTC: 23:59:20, 04:44:20, 04:45:50, 05:59:20,
   11:59:20 and 17:59:20 local time, shortly before the wake time and each resync
   time, and late in the wake minute *)
Utc(h, m, sec) == ((h * 60 + m) * 60 + sec) * MsInSec
StartTimes == {Utc(3, 59, 20), Utc(8, 44, 20), Utc(8, 45, 50), Utc(9, 59, 20), Utc(15, 59, 20),
               Utc(21, 59, 20)}
(* time ntptime.settime() takes, and the correction it applies to the RTC
   (a forward correction reads on the RTC like a slower reply) *)
NtpDurations == {0, NtpSlowSecs * MsInSec}
NtpSteps == {0 - StepSecs * MsInSec, 0}

VARIABLES
  pc,          \* position of the single thread
  caller,      \* coroutine main() is running: "setup" or "clock"
  now,         \* RTC reading, ms
  powerOn,     \* RTC reading at the first power-on
  hourMin,     \* clock(): local variable hourMin
  litTime,     \* fade(): argument litTime, ms
  dutyCycle,   \* fade(): loop variable
  pwmOn,       \* a PWM object exists on the pin (between PWM() and deinit())
  duty,        \* last value written with pwmLED.duty(), NoDuty when none
  num,         \* flash(): argument num
  flashDuty,   \* flash(): argument dutyCycle
  i,           \* flash(): loop variable
  flashRet,    \* flash(): where it returns to
  wifi,        \* "off", "active" (active, not associated), "connected"
  localTime,   \* updateRTCFromNTP(): local variable localTime (hour, minute)
  \* history variables
  pollTime,    \* RTC reading at the last getLocalTime() of clock()
  fadeStart,   \* RTC reading when the running/last fade was called
  lastWakeDay, \* local day of the last sunrise fade start
  wakeAgain,   \* a sunrise fade started on a day that already had one
  syncFailed,  \* ntptime.settime() raised OSError since boot
  distressCalls, \* flash(led, 4, FULL_BRIGHTNESS) calls since boot
  pulses,      \* on-pulses of the running/last flash call
  heartbeats,  \* heartbeat flashes of the running connectToWifi
  attempts,    \* ntptime.settime() calls of the running updateRTCFromNTP
  prevPoll,    \* pollTime of the iteration before, NoTime in the first one since boot
  selfTested,  \* the setup fade returned since boot
  synced,      \* ntptime.settime() returned since boot
  loopSince,   \* RTC reading when clock() was entered since boot
  lastSyncMinute, \* local minute of the sample on which clock() last called updateRTCFromNTP
  minuteSyncs,    \* calls of updateRTCFromNTP by clock() on samples of that minute, since boot
  backInMinute,   \* ntptime.settime() has set the RTC back since the first of those calls
  minuteSyncsAll, \* the same count, not restarted by machine.reset()
  backAll,        \* ntptime.settime() has set the RTC back at some time since power-on
  lastResetFrom,  \* the coroutine that was running at the last machine.reset()
  events,      \* waits, slow replies, RTC corrections and failed replies the network has caused
  resets       \* machine.reset() calls

fadeVars == <<litTime, dutyCycle>>
flashVars == <<num, flashDuty, i, flashRet>>
pwmVars == <<pwmOn, duty>>
clockVars == <<hourMin, pollTime, prevPoll>>
wakeHist == <<lastWakeDay, wakeAgain>>
failHist == <<syncFailed, distressCalls>>
connHist == <<heartbeats, attempts>>
syncHist == <<lastSyncMinute, minuteSyncs, backInMinute, minuteSyncsAll, backAll>>
bootHist == <<selfTested, synced, loopSince, lastResetFrom, resets>>
vars == <<pc, caller, now, powerOn, fadeVars, flashVars, pwmVars, clockVars, wifi, localTime,
          fadeStart, wakeHist, failHist, pulses, connHist, bootHist, syncHist, events>>

(* ---- getLocalTime ---- *)
\* utime.time() + TIME_ZONE * SEC_IN_HOUR, with utime.time() the RTC in whole seconds
LocalSecs(ms) == (ms \div MsInSec) + TIME_ZONE * SEC_IN_HOUR
\* utime.localtime(...)[3:5]: (hour, minute)
getLocalTime(ms) == <<(LocalSecs(ms) \div SEC_IN_HOUR) % 24, (LocalSecs(ms) \div 60) % 60>>
\* the day and the minute that utime.localtime(...) counts
LocalDay(ms) == LocalSecs(ms) \div (24 * SEC_IN_HOUR)
LocalMinute(ms) == LocalSecs(ms) \div 60

(* ---- conditions and arguments of clock() ---- *)
IsWakeTime_HourOnly(hm) == hm[1] = WAKEUP_TUPLE[1]
IsWakeTime(hm) == hm = WAKEUP_TUPLE
IsResyncTime_EveryHour(hm) == hm[2] = 0
IsResyncTime(hm) == hm = <<0, 0>> \/ hm = <<6, 0>> \/ hm = <<12, 0>> \/ hm = <<18, 0>>
SunriseLitMs_Default == FadeDefaultLitMs
SunriseLitMs == LIT_LENGTH * SEC_IN_HOUR * MsInSec
\* the while True loop goes round
AfterSleep_Return == "done"
AfterSleep == "poll"

(* ---- positions of setup() and updateRTCFromNTP() ---- *)
AfterSetupFade_NoUpdate == "poll"
AfterSetupFade == "connect"
\* connectToWifi: while not wifi.isconnected() checks again after each heartbeat
AfterHeartbeat_NoRecheck == "settime"
AfterHeartbeat_Escalates == "reset"
AfterHeartbeat == "wifi_wait"
AfterDistress_NoReset == "readback"
AfterDistress == "reset"

\* disconnectFromWifi: wifi.disconnect(); wifi.active(False)
TornDownWifi_StillActive == "active"
TornDownWifi == "off"

\* flash: pwmLED.deinit() leaves no PWM object on the pin
FlashDeinitPwm_Missing == TRUE
FlashDeinitPwm == FALSE

(* ---- fade(): utime.sleep(litTime) ---- *)
HoldMs_Skipped(lit) == 0
HoldMs(lit) == lit

(* ---- the power-on state of the program ---- *)
ProgInit ==
  /\ pc = "main"
  /\ caller = "setup"
  /\ hourMin = NoHourMin
  /\ litTime = 0
  /\ dutyCycle = 0
  /\ pwmOn = FALSE
  /\ duty = NoDuty
  /\ num = 0
  /\ flashDuty = 0
  /\ i = 0
  /\ flashRet = "none"
  /\ wifi = "off"
  /\ localTime = NoHourMin

Init ==
  /\ now \in StartTimes
  /\ powerOn = now
  /\ ProgInit
  /\ pollTime = NoTime
  /\ prevPoll = NoTime
  /\ fadeStart = NoTime
  /\ lastWakeDay = NoTime
  /\ wakeAgain = FALSE
  /\ syncFailed = FALSE
  /\ distressCalls = 0
  /\ pulses = 0
  /\ heartbeats = 0
  /\ attempts = 0
  /\ selfTested = FALSE
  /\ synced = FALSE
  /\ loopSince = NoTime
  /\ lastResetFrom = "none"
  /\ resets = 0
  /\ lastSyncMinute = NoTime
  /\ minuteSyncs = 0
  /\ backInMinute = FALSE
  /\ minuteSyncsAll = 0
  /\ backAll = FALSE
  /\ events = 0

(* ---- calls shared by several actions ---- *)
\* fade(led, lit): pwmLED = PWM(led, freq=5000), then the first loop
CallFade(lit) ==
  /\ pwmOn' = TRUE
  /\ duty' = NoDuty
  /\ litTime' = lit
  /\ dutyCycle' = 0
  /\ fadeStart' = now
  /\ pc' = "fade_up"

\* flash(led, n, d): pwmLED = PWM(led, freq=5000), then the loop
CallFlash(n, d, ret) ==
  /\ pwmOn' = TRUE
  /\ duty' = NoDuty
  /\ num' = n
  /\ flashDuty' = d
  /\ i' = 0
  /\ pulses' = 0
  /\ flashRet' = ret
  /\ pc' = "flash_loop"

(* ---- main / setup ---- *)
\* led = Pin(PIN, Pin.OUT); uasyncio.run(setup(led)): await fade(led)
Main ==
  /\ pc = "main"
  /\ caller' = "setup"
  /\ CallFade(FadeDefaultLitMs)
  /\ UNCHANGED <<now, powerOn, flashVars, clockVars, wifi, localTime, wakeHist, failHist, pulses,
                 connHist, bootHist, syncHist, events>>

(* ---- fade ---- *)
\* for dutyCycle in range(0, FULL_BRIGHTNESS): pwmLED.duty(dutyCycle); utime.sleep(t)
FadeUpStep ==
  /\ pc = "fade_up"
  /\ duty' = dutyCycle
  /\ now' = now + FadeStepMs
  /\ dutyCycle' = dutyCycle + 1
  /\ pc' = IF dutyCycle + 1 < FULL_BRIGHTNESS THEN "fade_up" ELSE "fade_hold"
  /\ UNCHANGED <<caller, powerOn, litTime, flashVars, pwmOn, clockVars, wifi, localTime, fadeStart,
                 wakeHist, failHist, pulses, connHist, bootHist, syncHist, events>>

\* utime.sleep(litTime), then the second loop begins at FULL_BRIGHTNESS
FadeHold ==
  /\ pc = "fade_hold"
  /\ now' = now + HoldMs(litTime)
  /\ dutyCycle' = FULL_BRIGHTNESS
  /\ pc' = "fade_down"
  /\ UNCHANGED <<caller, powerOn, litTime, flashVars, pwmVars, clockVars, wifi, localTime, fadeStart,
                 wakeHist, failHist, pulses, connHist, bootHist, syncHist, events>>

\* for dutyCycle in range(FULL_BRIGHTNESS, 0, -1): pwmLED.duty(dutyCycle); utime.sleep(t)
FadeDownStep ==
  /\ pc = "fade_down"
  /\ duty' = dutyCycle
  /\ now' = now + FadeStepMs
  /\ dutyCycle' = dutyCycle - 1
  /\ pc' = IF dutyCycle - 1 > 0 THEN "fade_down" ELSE "fade_deinit"
  /\ UNCHANGED <<caller, powerOn, litTime, flashVars, pwmOn, clockVars, wifi, localTime, fadeStart,
                 wakeHist, failHist, pulses, connHist, bootHist, syncHist, events>>

\* pwmLED.deinit() and the return: setup goes on to updateRTCFromNTP, clock to its second if
FadeDeinit ==
  /\ pc = "fade_deinit"
  /\ pwmOn' = FALSE
  /\ pc' = IF caller = "setup" THEN AfterSetupFade ELSE "resync_check"
  /\ selfTested' = (selfTested \/ caller = "setup")
  /\ UNCHANGED <<caller, now, powerOn, fadeVars, flashVars, duty, clockVars, wifi, localTime, fadeStart,
                 wakeHist, failHist, pulses, connHist, synced, loopSince, lastResetFrom, resets,
                 syncHist, events>>

(* ---- updateRTCFromNTP ---- *)
\* connectToWifi: wifi = network.WLAN(STA_IF); wifi.active(True); wifi.connect(SSID, PW)
Connect ==
  /\ pc = "connect"
  /\ wifi' = "active"
  /\ heartbeats' = 0
  /\ attempts' = 0
  /\ pc' = "wifi_wait"
  /\ UNCHANGED <<caller, now, powerOn, fadeVars, flashVars, pwmVars, clockVars, localTime, fadeStart,
                 wakeHist, failHist, pulses, bootHist, syncHist, events>>

\* while not wifi.isconnected(): the network has associated, connectToWifi returns
WifiConnected ==
  /\ pc = "wifi_wait"
  /\ wifi' = "connected"
  /\ pc' = "settime"
  /\ UNCHANGED <<caller, now, powerOn, fadeVars, flashVars, pwmVars, clockVars, localTime, fadeStart,
                 wakeHist, failHist, pulses, connHist, bootHist, syncHist, events>>

\* while not wifi.isconnected(): not yet, flash(led, 2, 100)
WifiHeartbeat ==
  /\ pc = "wifi_wait"
  /\ heartbeats < MaxHeartbeats
  /\ heartbeats > 0 \/ events < MaxEvents
  /\ events' = IF heartbeats = 0 THEN events + 1 ELSE events
  /\ heartbeats' = heartbeats + 1
  /\ CallFlash(HeartbeatNum, HeartbeatDuty, AfterHeartbeat)
  /\ UNCHANGED <<caller, now, powerOn, fadeVars, clockVars, wifi, localTime, fadeStart,
                 wakeHist, failHist, attempts, bootHist, syncHist>>

\* a reply that takes no time and leaves the RTC as it is
Quiet(d, s) == d = 0 /\ s = 0

\* ntptime.settime() returns: the RTC is set from network time
SetTimeOk ==
  /\ pc = "settime"
  /\ \E d \in NtpDurations, s \in NtpSteps :
       /\ Quiet(d, s) \/ events < MaxEvents
       /\ events' = IF Quiet(d, s) THEN events ELSE events + 1
       /\ now' = now + d + s
       /\ backInMinute' = (backInMinute \/ s < 0)
       /\ backAll' = (backAll \/ s < 0)
  /\ synced' = TRUE
  /\ attempts' = attempts + 1
  /\ pc' = "readback"
  /\ UNCHANGED <<caller, powerOn, fadeVars, flashVars, pwmVars, clockVars, wifi, localTime, fadeStart,
                 wakeHist, failHist, pulses, heartbeats, selfTested, loopSince, lastResetFrom, resets,
                 lastSyncMinute, minuteSyncs, minuteSyncsAll>>

\* ntptime.settime() raises OSError: flash(led, 4, FULL_BRIGHTNESS), then machine.reset()
SetTimeFails ==
  /\ pc = "settime"
  /\ resets < MaxResets
  /\ events < MaxEvents
  /\ events' = events + 1
  /\ \E d \in NtpDurations : now' = now + d
  /\ syncFailed' = TRUE
  /\ distressCalls' = distressCalls + 1
  /\ attempts' = attempts + 1
  /\ CallFlash(DistressNum, FULL_BRIGHTNESS, AfterDistress)
  /\ UNCHANGED <<caller, powerOn, fadeVars, clockVars, wifi, localTime, fadeStart,
                 wakeHist, heartbeats, bootHist, syncHist>>

\* localTime = getLocalTime()
ReadBack ==
  /\ pc = "readback"
  /\ localTime' = getLocalTime(now)
  /\ pc' = "disconnect"
  /\ UNCHANGED <<caller, now, powerOn, fadeVars, flashVars, pwmVars, clockVars, wifi, fadeStart,
                 wakeHist, failHist, pulses, connHist, bootHist, syncHist, events>>

\* disconnectFromWifi(wifi) and the return: setup returns and main runs clock; clock sleeps
Disconnect ==
  /\ pc = "disconnect"
  /\ wifi' = TornDownWifi
  /\ pc' = IF caller = "setup" THEN "poll" ELSE "sleep"
  /\ caller' = "clock"
  /\ loopSince' = IF caller = "setup" THEN now ELSE loopSince
  /\ UNCHANGED <<now, powerOn, fadeVars, flashVars, pwmVars, clockVars, localTime, fadeStart,
                 wakeHist, failHist, pulses, connHist, selfTested, synced, lastResetFrom, resets,
                 syncHist, events>>

(* ---- flash ---- *)
\* range(0, num - 1): the stop value of the loop counter
FlashRangeStop_Num(n) == n
FlashRangeStop(n) == n - 1

\* for i in range(0, num - 1): utime.sleep(0.5); pwmLED.duty(dutyCycle)
FlashOn ==
  /\ pc = "flash_loop"
  /\ i < FlashRangeStop(num)
  /\ now' = now + FlashHalfMs
  /\ duty' = flashDuty
  /\ pc' = "flash_on"
  /\ UNCHANGED <<caller, powerOn, fadeVars, flashVars, pwmOn, clockVars, wifi, localTime, fadeStart,
                 wakeHist, failHist, pulses, connHist, bootHist, syncHist, events>>

\* utime.sleep(0.5); pwmLED.duty(0)
FlashOff ==
  /\ pc = "flash_on"
  /\ now' = now + FlashHalfMs
  /\ duty' = 0
  /\ i' = i + 1
  /\ pulses' = pulses + 1
  /\ pc' = "flash_loop"
  /\ UNCHANGED <<caller, powerOn, fadeVars, num, flashDuty, flashRet, pwmOn, clockVars, wifi, localTime,
                 fadeStart, wakeHist, failHist, connHist, bootHist, syncHist, events>>

\* pwmLED.deinit() and the return
FlashDeinit ==
  /\ pc = "flash_loop"
  /\ ~(i < FlashRangeStop(num))
  /\ pwmOn' = FlashDeinitPwm
  /\ pc' = flashRet
  /\ UNCHANGED <<caller, now, powerOn, fadeVars, flashVars, duty, clockVars, wifi, localTime, fadeStart,
                 wakeHist, failHist, pulses, connHist, bootHist, syncHist, events>>

(* ---- machine.reset(): the program restarts from power-on ---- *)
Reset ==
  /\ pc = "reset"
  /\ pc' = "main"
  /\ caller' = "setup"
  /\ hourMin' = NoHourMin
  /\ litTime' = 0
  /\ dutyCycle' = 0
  /\ pwmOn' = FALSE
  /\ duty' = NoDuty
  /\ num' = 0
  /\ flashDuty' = 0
  /\ i' = 0
  /\ flashRet' = "none"
  /\ wifi' = "off"
  /\ localTime' = NoHourMin
  /\ pollTime' = NoTime
  /\ prevPoll' = NoTime
  /\ fadeStart' = NoTime
  /\ syncFailed' = FALSE
  /\ distressCalls' = 0
  /\ pulses' = 0
  /\ heartbeats' = 0
  /\ attempts' = 0
  /\ selfTested' = FALSE
  /\ synced' = FALSE
  /\ loopSince' = NoTime
  /\ lastResetFrom' = caller
  /\ resets' = resets + 1
  /\ minuteSyncs' = 0
  /\ backInMinute' = FALSE
  /\ UNCHANGED <<now, powerOn, wakeHist, lastSyncMinute, minuteSyncsAll, backAll, events>>

(* ---- clock ---- *)
\* hourMin = getLocalTime()[3:5]
Poll ==
  /\ pc = "poll"
  /\ now < powerOn + RunMs
  /\ hourMin' = getLocalTime(now)
  /\ pollTime' = now
  /\ prevPoll' = pollTime
  /\ pc' = "wake_check"
  /\ UNCHANGED <<caller, now, powerOn, fadeVars, flashVars, pwmVars, wifi, localTime, fadeStart,
                 wakeHist, failHist, pulses, connHist, bootHist, syncHist, events>>

\* if hourMin == WAKEUP_TUPLE: await fade(led, LIT_LENGTH * SEC_IN_HOUR)
WakeFade ==
  /\ pc = "wake_check"
  /\ IsWakeTime(hourMin)
  /\ CallFade(SunriseLitMs)
  /\ lastWakeDay' = LocalDay(now)
  /\ wakeAgain' = (wakeAgain \/ lastWakeDay = LocalDay(now))
  /\ UNCHANGED <<caller, now, powerOn, flashVars, clockVars, wifi, localTime,
                 failHist, pulses, connHist, bootHist, syncHist, events>>

WakeSkip ==
  /\ pc = "wake_check"
  /\ ~IsWakeTime(hourMin)
  /\ pc' = "resync_check"
  /\ UNCHANGED <<caller, now, powerOn, fadeVars, flashVars, pwmVars, clockVars, wifi, localTime, fadeStart,
                 wakeHist, failHist, pulses, connHist, bootHist, syncHist, events>>

\* the sample is of the minute in which clock() last called updateRTCFromNTP
SameMinute == LocalMinute(pollTime) = lastSyncMinute

\* if hourMin == (0, 0) or ... : updateRTCFromNTP(led)
Resync ==
  /\ pc = "resync_check"
  /\ IsResyncTime(hourMin)
  /\ pc' = "connect"
  /\ lastSyncMinute' = LocalMinute(pollTime)
  /\ minuteSyncs' = IF SameMinute /\ minuteSyncs > 0 THEN minuteSyncs + 1 ELSE 1
  /\ backInMinute' = (SameMinute /\ minuteSyncs > 0 /\ backInMinute)
  /\ minuteSyncsAll' = IF SameMinute THEN minuteSyncsAll + 1 ELSE 1
  /\ backAll' = backAll
  /\ UNCHANGED <<caller, now, powerOn, fadeVars, flashVars, pwmVars, clockVars, wifi, localTime, fadeStart,
                 wakeHist, failHist, pulses, connHist, bootHist, events>>

ResyncSkip ==
  /\ pc = "resync_check"
  /\ ~IsResyncTime(hourMin)
  /\ pc' = "sleep"
  /\ UNCHANGED <<caller, now, powerOn, fadeVars, flashVars, pwmVars, clockVars, wifi, localTime, fadeStart,
                 wakeHist, failHist, pulses, connHist, bootHist, syncHist, events>>

\* utime.sleep(30)
Sleep ==
  /\ pc = "sleep"
  /\ now' = now + PollSleepMs
  /\ pc' = AfterSleep
  /\ UNCHANGED <<caller, powerOn, fadeVars, flashVars, pwmVars, clockVars, wifi, localTime, fadeStart,
                 wakeHist, failHist, pulses, connHist, bootHist, syncHist, events>>

Next ==
  \/ Main
  \/ FadeUpStep
  \/ FadeHold
  \/ FadeDownStep
  \/ FadeDeinit
  \/ Connect
  \/ WifiConnected
  \/ WifiHeartbeat
  \/ SetTimeOk
  \/ SetTimeFails
  \/ ReadBack
  \/ Disconnect
  \/ FlashOn
  \/ FlashOff
  \/ FlashDeinit
  \/ Reset
  \/ Poll
  \/ WakeFade
  \/ WakeSkip
  \/ Resync
  \/ ResyncSkip
  \/ Sleep

Spec == Init /\ [][Next]_vars

(* ---- flash(led, num, dutyCycle) on its own, for any arguments ---- *)
FlashNums == (0 - 1)..MaxFlashNum
FlashDuties == {0, HeartbeatDuty, FULL_BRIGHTNESS}

\* the state right after pwmLED = PWM(led, freq=5000) in a call flash(led, n, d)
InitFlash ==
  /\ now \in StartTimes
  /\ powerOn = now
  /\ caller = "setup"
  /\ hourMin = NoHourMin
  /\ litTime = 0
  /\ dutyCycle = 0
  /\ wifi = "off"
  /\ localTime = NoHourMin
  /\ pwmOn = TRUE
  /\ duty = NoDuty
  /\ num \in FlashNums
  /\ flashDuty \in FlashDuties
  /\ i = 0
  /\ pulses = 0
  /\ flashRet = "done"
  /\ pc = "flash_loop"
  /\ pollTime = NoTime
  /\ prevPoll = NoTime
  /\ fadeStart = NoTime
  /\ lastWakeDay = NoTime
  /\ wakeAgain = FALSE
  /\ syncFailed = FALSE
  /\ distressCalls = 0
  /\ heartbeats = 0
  /\ attempts = 0
  /\ selfTested = FALSE
  /\ synced = FALSE
  /\ loopSince = NoTime
  /\ lastResetFrom = "none"
  /\ resets = 0
  /\ lastSyncMinute = NoTime
  /\ minuteSyncs = 0
  /\ backInMinute = FALSE
  /\ minuteSyncsAll = 0
  /\ backAll = FALSE
  /\ events = 0

NextFlash ==
  \/ FlashOn
  \/ FlashOff
  \/ FlashDeinit

SpecFlash == InitFlash /\ [][NextFlash]_vars

(***************************************************************************)
(* Properties                                                              *)
(***************************************************************************)
InFade == pc \in {"fade_up", "fade_hold", "fade_down", "fade_deinit"}
InFlash == pc \in {"flash_loop", "flash_on"}
InUpdate == pc \in {"connect", "wifi_wait", "settime", "readback", "disconnect"}
InLoopBody == pc \in {"poll", "wake_check", "resync_check", "sleep"}
SunriseFadeMs == 2 * 3600 * 1000
WakeSample == <<4, 45>>
ResyncSamples == {<<0, 0>>, <<6, 0>>, <<12, 0>>, <<18, 0>>}

\* C1: in every iteration of clock(), the first if starts fade(led, 2*3600) exactly
\* when the (hour, minute) read at the start of the iteration is (4, 45).
C1_WakeIffSample ==
  [][pc = "wake_check" =>
       /\ hourMin = getLocalTime(pollTime)
       /\ (pc' = "fade_up" /\ litTime' = SunriseFadeMs /\ fadeStart' = now)
            <=> (getLocalTime(pollTime) = WakeSample)
       /\ pc' # "fade_up" => (pc' = "resync_check" /\ UNCHANGED <<fadeVars, pwmVars, fadeStart>>)]_vars

\* the sunrise fade is running; the sample before it was (4, 44)
C1_Witness ==
  /\ caller = "clock"
  /\ pc = "fade_up"
  /\ hourMin = WakeSample
  /\ prevPoll # NoTime
  /\ getLocalTime(prevPoll) = <<4, 44>>

\* C2: in every iteration of clock(), the second if calls updateRTCFromNTP exactly
\* when the (hour, minute) read at the start of the iteration is one of (0,0), (6,0),
\* (12,0), (18,0); hourMin is still that sample, also after a fade.
C2_ResyncIffSample ==
  [][pc = "resync_check" =>
       /\ hourMin = getLocalTime(pollTime)
       /\ (pc' = "connect") <=> (getLocalTime(pollTime) \in ResyncSamples)
       /\ pc' # "connect" => pc' = "sleep"]_vars

\* clock() has called updateRTCFromNTP on the sample (18, 0)
C2_Witness ==
  /\ caller = "clock"
  /\ pc = "connect"
  /\ hourMin = <<18, 0>>

\* C3: once ntptime.settime() has failed, the program is inside the one distress
\* flash(led, 4, FULL_BRIGHTNESS) or at machine.reset(): it makes no second attempt,
\* never returns to the caller and never polls; it resets after exactly 3 pulses.
C3_FailureFlashesThenResets ==
  syncFailed =>
    /\ distressCalls = 1
    /\ \/ InFlash /\ num = 4 /\ flashDuty = 1023 /\ flashRet = "reset"
       \/ pc = "reset" /\ pulses = 3 /\ ~pwmOn
    /\ ~synced \/ caller = "clock"

\* a failed resync of the running loop has flashed and is about to reset
C3_Witness ==
  /\ syncFailed
  /\ pc = "reset"
  /\ caller = "clock"
  /\ pulses = 3

\* C4: the ramp-up of fade ends with the duty cycle at fullBrightness, where the
\* hold of litTime happens.
C4_HoldAtFullBrightness ==
  pc = "fade_hold" => duty = 1023

\* C5: the ramp-down of fade ends with the last written duty cycle at 0, before the
\* output is disabled.
C5_RampDownEndsAtZero ==
  pc = "fade_deinit" => duty = 0

\* the last of the four resync minutes (local minutes 0, 360, 720, 1080 of a day)
\* that began at or before the RTC reading ms
LastResyncMinute(ms) == (LocalMinute(ms) \div 360) * 360

\* C6: while clock() runs, every resync minute (00:00, 06:00, 12:00, 18:00) that has
\* gone by since clock() was entered saw a call of updateRTCFromNTP.
C6_ResyncEverySixHours ==
  (/\ caller = "clock"
   /\ loopSince # NoTime
   /\ LocalMinute(loopSince) < LastResyncMinute(now)
   /\ LastResyncMinute(now) < LocalMinute(now))
    => lastSyncMinute = LastResyncMinute(now)

\* C7: no sunrise fade starts on a local day on which one has started already.
C7_NoSecondWakeSameDay ==
  /\ ~wakeAgain
  /\ (caller = "clock" /\ pc = "fade_up" /\ dutyCycle = 0) => lastWakeDay = LocalDay(now)

\* the sunrise fade has returned and the loop polls on, later the same day
C7_Witness ==
  /\ caller = "clock"
  /\ pc = "wake_check"
  /\ lastWakeDay = LocalDay(now)
  /\ hourMin = <<6, 46>>

\* C8: from the call of the sunrise fade to its return the thread only steps the
\* fade: nothing is polled, no resync, connect or flash begins, no other fade is
\* called, and the return comes 2 hours and two ramps after the call.
C8_SunriseFadeBlocks ==
  [][(caller = "clock" /\ InFade) =>
       /\ UNCHANGED <<caller, clockVars, flashVars, wifi, localTime, fadeStart, litTime,
                      wakeHist, failHist, pulses, connHist, bootHist, syncHist, events>>
       /\ \/ InFade' /\ pwmOn /\ pwmOn'
          \/ /\ pc = "fade_deinit"
             /\ pc' = "resync_check"
             /\ now = fadeStart + SunriseFadeMs + 2 * 1023 * 5
             /\ pollTime = fadeStart]_vars

\* the sunrise fade is about to return, and the RTC reads 06:45
C8_Witness ==
  /\ caller = "clock"
  /\ pc = "fade_deinit"
  /\ getLocalTime(now) = <<6, 45>>
  /\ hourMin = WakeSample

C10_LoopLeftOnlyByReset ==
  [][caller = "clock" =>
       \/ caller' = "clock" /\ (InLoopBody' \/ InFade' \/ InUpdate' \/ InFlash' \/ pc' = "reset")
       \/ pc = "reset" /\ syncFailed /\ ProgInit' /\ pollTime' = NoTime /\ ~synced' /\ ~selfTested']_vars

\* the program is back at power-on after a reset taken in the loop
C10_Witness ==
  /\ lastResetFrom = "clock"
  /\ ProgInit
  /\ resets = 1


\* C11 as stated: the session is torn down after every sync attempt, also a failed
\* one, so the device goes to machine.reset() with the session down.
C11_TornDownAlsoOnFailure ==
  (syncFailed /\ pc = "reset") => wifi = "off"

\* C11 as amended: disconnectFromWifi tears the session down after every successful
\* attempt, before the caller goes on; after a failed attempt the session stays
\* connected through the distress flash until machine.reset(); the session is down
\* wherever clock() reads the RTC, sleeps or fades, and at power-on.
C11_TornDownOnSuccessOnly ==
  /\ (caller = "clock" /\ (InLoopBody \/ InFade)) => wifi = "off"
  /\ pc = "main" => wifi = "off"
  /\ pc \in {"settime", "readback", "disconnect"} => wifi = "connected"
  /\ syncFailed => wifi = "connected"

\* a resync of the loop succeeded and the loop sleeps with the session down
C11_Witness ==
  /\ caller = "clock"
  /\ pc = "sleep"
  /\ hourMin \in ResyncSamples
  /\ synced
  /\ wifi = "off"
  /\ localTime # NoHourMin


\* C12: in updateRTCFromNTP the session is brought up first, ntptime.settime() is
\* called only with the network connected and at most once, and only after it
\* succeeded is local time read back and then the session torn down.
C12_UpdateOrder ==
  /\ attempts <= 1
  /\ (pc = "wifi_wait" \/ (InFlash /\ flashRet = "wifi_wait")) => (wifi = "active" /\ attempts = 0)
  /\ pc = "settime" => (wifi = "connected" /\ attempts = 0)
  /\ pc \in {"readback", "disconnect"} =>
       (attempts = 1 /\ synced /\ ~syncFailed /\ wifi = "connected")
  /\ pc = "disconnect" => localTime = getLocalTime(now)
  /\ syncFailed => attempts = 1

\* the call waited through a heartbeat, connected, synced once and read the time back
C12_Witness ==
  /\ pc = "disconnect"
  /\ heartbeats = 1
  /\ attempts = 1
  /\ wifi = "connected"

\* C13: every check of wifi.isconnected() either ends the wait and goes to the time
\* sync, or gives the heartbeat flash(led, 2, 100) and checks again; the wait neither
\* gives a distress flash nor resets, however many checks fail.
C13_WaitNeverEscalates ==
  [][/\ pc = "wifi_wait" =>
          \/ pc' = "settime" /\ wifi' = "connected" /\ UNCHANGED <<failHist, resets, pwmVars>>
          \/ /\ pc' = "flash_loop"
             /\ num' = 2 /\ flashDuty' = 100 /\ flashRet' = "wifi_wait"
             /\ heartbeats' = heartbeats + 1
             /\ UNCHANGED <<failHist, resets, wifi>>
     /\ (InFlash /\ flashRet = "wifi_wait") =>
          /\ ~syncFailed /\ distressCalls = 0
          /\ UNCHANGED <<failHist, resets, wifi, flashRet>>
          /\ InFlash' \/ (pc' = "wifi_wait" /\ pulses = 1)]_vars

\* two checks in a row found the network not connected, the third found it connected
C13_Witness ==
  /\ pc = "settime"
  /\ heartbeats = 2
  /\ distressCalls = 0
  /\ ~syncFailed

\* C14: a PWM object is on the pin exactly while a fade or a flash is in progress;
\* wherever the program polls, sleeps, connects or syncs the output is disabled.
C14_PwmOnlyInFadeOrFlash ==
  /\ pwmOn <=> (InFade \/ InFlash)
  /\ (InLoopBody \/ InUpdate \/ pc \in {"main", "reset"}) => ~pwmOn

\* the loop syncs after a heartbeat flash, with the output disabled again
C14_Witness ==
  /\ caller = "clock"
  /\ pc = "settime"
  /\ heartbeats = 1
  /\ pulses = 1
  /\ ~pwmOn


C16_WakeMinuteNotSkipped ==
  /\ (/\ pc = "wake_check"
      /\ prevPoll # NoTime
      /\ getLocalTime(prevPoll) # WakeSample
      /\ getLocalTime(prevPoll) \notin ResyncSamples) =>
       /\ pollTime = prevPoll + 30000
       /\ LocalMinute(pollTime) - LocalMinute(prevPoll) \in {0, 1}
       /\ (getLocalTime(prevPoll) = <<4, 44>> /\ LocalSecs(prevPoll) % 60 >= 30) =>
            hourMin = WakeSample
  /\ (caller = "clock" /\ InFade) =>
       /\ hourMin = WakeSample
       /\ fadeStart = pollTime
       /\ getLocalTime(fadeStart) = WakeSample

\* the loop sampled 04:44, slept, sampled 04:45 and has started the sunrise fade
C16_Witness ==
  /\ caller = "clock"
  /\ pc = "fade_up"
  /\ getLocalTime(prevPoll) = <<4, 44>>
  /\ hourMin = WakeSample
  /\ getLocalTime(fadeStart) = WakeSample

\* C17 as stated: as long as no sync has stepped the clock backwards, clock() calls
\* updateRTCFromNTP at most twice within one qualifying minute.
C17_AtMostTwicePerMinute == ~backAll => minuteSyncsAll <= 2

\* C17 amended: between two resets of the device, and without a backward step of the
\* clock, clock() calls updateRTCFromNTP at most twice within one qualifying minute.
C17_AtMostTwicePerBoot ==
  /\ ~backInMinute => minuteSyncs <= 2
  /\ (pc = "connect" /\ caller = "clock" /\ minuteSyncs = 2 /\ ~backInMinute) =>
       pollTime >= prevPoll + 30000

\* the second resync of one minute starts, with no backward step in between
C17_Witness ==
  /\ pc = "connect"
  /\ caller = "clock"
  /\ minuteSyncs = 2
  /\ ~backInMinute
  /\ hourMin \in ResyncSamples

====
